---- MODULE Spec2Model ----
(***************************************************************************)
(* Sign-In With Solana plugin (src/src/index.ts): the canonical message    *)
(* builder, the start endpoint that issues a challenge and the verify      *)
(* endpoint, one action per stretch of the handler between two awaits.     *)
(*                                                                         *)
(* A text is a sequence of atoms: an atom is a run of characters the       *)
(* handlers never look inside ("app.example.com", "Nonce: ", "\n").        *)
(***************************************************************************)
EXTENDS Integers, Sequences, FiniteSets, TLC

(* ------------------------------ bounds --------------------------------- *)

MaxCalls == 2
MaxStarts == 2
MaxTime == 2

(* ------------------------------ values --------------------------------- *)

\* the value of an absent optional text and of a failed Array.find: a text no
\* input holds
Undefined == <<"<undefined>">>
NL == "\n"

\* SiwsOptions as the test configures the plugin, with a short ttl; an
\* optional number is the empty set when absent
options == [domain |-> <<"app.example.com">>, nonceTtlSeconds |-> {1}]

DefaultNonceTtlSeconds == 300

baseURL == <<"http://localhost:3000/api/auth">>

\* wallet addresses (base58 public keys, at least 32 characters)
Address == {"addr1"}

\* keypairs that can sign: the wallets and one that owns no address in use
Keypair == Address \cup {"attacker"}

\* values crypto.getRandomValues + bs58.encode can return
Nonce == {<<"n1">>, <<"n2">>}

OtherDomain == <<"evil.example.org">>

IssuedAt == <<"2024-01-01T00:00:00Z">>

(* ------------------------------ strings -------------------------------- *)

RECURSIVE Join(_, _)
Join(lines, sep) ==
    IF lines = <<>> THEN <<>>
    ELSE IF Len(lines) = 1 THEN Head(lines)
    ELSE Head(lines) \o sep \o Join(Tail(lines), sep)

RECURSIVE Split(_, _)
Split(text, sep) ==
    IF \A k \in 1..Len(text) : text[k] # sep THEN <<text>>
    ELSE LET k == CHOOSE j \in 1..Len(text) :
                      text[j] = sep /\ \A h \in 1..(j - 1) : text[h] # sep
         IN  <<SubSeq(text, 1, k - 1)>> \o Split(SubSeq(text, k + 1, Len(text)), sep)

StartsWith(text, prefix) ==
    /\ Len(prefix) <= Len(text)
    /\ SubSeq(text, 1, Len(prefix)) = prefix

Whitespace == {" ", NL}

RECURSIVE Trim(_)
Trim(text) ==
    IF text = <<>> THEN text
    ELSE IF Head(text) \in Whitespace THEN Trim(Tail(text))
    ELSE IF text[Len(text)] \in Whitespace THEN Trim(SubSeq(text, 1, Len(text) - 1))
    ELSE text

(* ------------------------ canonical message ---------------------------- *)

buildSiwsMessage(i) ==
    LET lines == <<
            i.domain \o <<" wants you to sign in", " with your Solana account:">>,
            i.address,
            <<>>,
            IF i.statement = Undefined
                THEN <<"Sign in with Solana to the app.">> ELSE i.statement,
            <<>>,
            <<"URI: ">> \o i.uri,
            <<"Version: 1">>,
            <<"Nonce: ">> \o i.nonce,
            <<"Issued At: ">> \o i.issuedAt >>
        withExp == IF i.expirationTime # Undefined /\ i.expirationTime # <<>>
                   THEN Append(lines, <<"Expiration Time: ">> \o i.expirationTime)
                   ELSE lines
        \* an absent resources list is the empty list: both skip the block
        withRes == IF i.resources # <<>>
                   THEN Append(withExp,
                               <<"Resources:", NL, "- ">> \o Join(i.resources, <<NL, "- ">>))
                   ELSE withExp
    IN  Join(withRes, <<NL>>)

IsNonceLine(l) == StartsWith(l, <<"Nonce: ">>)

\* lines.find(IsNonceLine): the first line that starts with "Nonce: "
FindNonceLine(lines) ==
    IF \E k \in 1..Len(lines) : IsNonceLine(lines[k])
    THEN lines[CHOOSE k \in 1..Len(lines) :
                   IsNonceLine(lines[k]) /\ \A h \in 1..(k - 1) : ~IsNonceLine(lines[h])]
    ELSE Undefined

\* verify, step 1: the nonce of the message
nonceFromMsg(message) ==
    LET nonceLine == FindNonceLine(Split(message, NL))
    IN  IF nonceLine = Undefined THEN Undefined
        ELSE Trim(SubSeq(nonceLine, 2, Len(nonceLine)))

\* !nonceFromMsg: undefined or the empty string
NonceMissing(message) == nonceFromMsg(message) \in {Undefined, <<>>}

buildAccountId(address) == <<"siws:", address>>

(* ----------------------------- signatures ------------------------------ *)

\* A signature string: base58 of the 64 bytes a keypair produced over a
\* message, or a string that is no base58 text.
Sign(keypair, message) == [base58 |-> TRUE, signer |-> keypair, signed |-> message]

NotBase58 == [base58 |-> FALSE, signer |-> "nobody", signed |-> <<>>]

\* bs58.decode throws on a string that is no base58 text
bs58decodeThrows(signature) == ~signature.base58

\* mutant: the signature is checked against the key only
verifyAsyncAnyMessage(signature, message, address) ==
    signature.signer = address

\* ed25519.verifyAsync(sig, msg, publicKey): the address is the base58 text of
\* the public key
verifyAsync(signature, message, address) ==
    /\ signature.signer = address
    /\ signature.signed = message

(* ------------------- stores of the internal adapter -------------------- *)

VARIABLES
    now,            \* Date.now(), in milliseconds
    verification,   \* the verification values: rows [id, identifier, value, expiresAt]
    user,           \* the users
    account,        \* the accounts, each linked to a user
    session,        \* the sessions
    started,        \* the responses of the start calls, in order
    calls,          \* the verify calls, in call order
    consumed        \* history: per address, the calls that deleted its
                    \* verification value since its last start

vars == <<now, verification, user, account, session, started, calls, consumed>>

\* The stores belong to the internal adapter of the host framework, which the
\* plugin only calls. Their operations follow the adapter's contract: the
\* verification values are keyed by identifier (create replaces, find and
\* delete go by identifier), accounts are found by account id and users by id.

\* creating a value for an identifier replaces the one it had
createVerificationValue(rows, data) ==
    {r \in rows : r.identifier # data.identifier} \cup {data}

\* the row of the identifier, as a set: empty when there is none
findVerificationValue(rows, identifier) ==
    {r \in rows : r.identifier = identifier}

deleteVerificationValue(rows, identifier) ==
    {r \in rows : r.identifier # identifier}

findAccount(accounts, accountId) ==
    {a \in accounts : a.accountId = accountId}

findUserById(users, id) ==
    {u \in users : u.id = id}

(* ---------------------------- body schemas ------------------------------ *)

\* two wallets, for the calls of one address next to those of another
Wallet == Address \cup {"addr2"}

\* an address of fewer than 32 characters
ShortAddress == "short"

\* a field the body does not have
AbsentAddress == "<undefined>"
AbsentSignature == [base58 |-> FALSE, signer |-> "<undefined>", signed |-> <<>>]

MinAddressLength == 32

\* the number of characters of an address: a base58 public key has 32 to 44
Length(address) == IF address = ShortAddress THEN 5 ELSE 44

\* z.object({ address: z.string().min(32) })
ValidStartBody(address) ==
    /\ address # AbsentAddress
    /\ Length(address) >= MinAddressLength

\* z.object({ address: z.string().min(32), message: z.string(),
\*            signature: z.string() })
ValidVerifyBody(body) ==
    /\ ValidStartBody(body.address)
    /\ body.message # Undefined
    /\ body.signature # AbsentSignature

(* ------------------------------- start --------------------------------- *)

\* o.nonceTtlSeconds ?? 300
NonceTtlSecondsOf(o) ==
    IF o.nonceTtlSeconds = {} THEN DefaultNonceTtlSeconds
    ELSE CHOOSE n \in o.nonceTtlSeconds : TRUE

\* mutant: the configured ttl is ignored
nonceTtlSecondsUnconfigured == DefaultNonceTtlSeconds

nonceTtlSeconds == NonceTtlSecondsOf(options)

\* mutant: the nonce returned is not the one stored
StartHandlerOtherNonce(address, nonce) ==
    /\ LET expiresAt == now + nonceTtlSeconds * 1000
       IN  verification' = createVerificationValue(verification,
               [id |-> Len(started) + 1,
                identifier |-> buildAccountId(address),
                value |-> nonce,
                expiresAt |-> expiresAt])
    /\ started' = Append(started,
           [address |-> address, nonce |-> CHOOSE n \in Nonce : n # nonce,
            domain |-> options.domain, uri |-> baseURL])
    /\ consumed' = [consumed EXCEPT ![address] = {}]
    /\ UNCHANGED <<now, user, account, session, calls>>

\* the handler of start: a challenge is stored and returned
StartHandler(address, nonce) ==
    /\ LET expiresAt == now + nonceTtlSeconds * 1000
       IN  verification' = createVerificationValue(verification,
               [id |-> Len(started) + 1,
                identifier |-> buildAccountId(address),
                value |-> nonce,
                expiresAt |-> expiresAt])
    /\ started' = Append(started,
           [address |-> address, nonce |-> nonce,
            domain |-> options.domain, uri |-> baseURL])
    /\ consumed' = [consumed EXCEPT ![address] = {}]
    /\ UNCHANGED <<now, user, account, session, calls>>

\* the answer to a start whose body fails the schema: nothing is returned
StartRejected(address) ==
    [address |-> address, nonce |-> Undefined, domain |-> Undefined,
     uri |-> Undefined]

\* mutant: the body of start is not validated
StartUnvalidated(address, nonce) ==
    /\ Len(started) < MaxStarts
    /\ StartHandler(address, nonce)

\* POST /siws/start
Start(address, nonce) ==
    /\ Len(started) < MaxStarts
    /\ IF ValidStartBody(address)
       THEN StartHandler(address, nonce)
       ELSE /\ started' = Append(started, StartRejected(address))
            /\ UNCHANGED <<now, verification, user, account, session, calls,
                           consumed>>

\* time passes, a second at a time
Tick ==
    /\ now < MaxTime * 1000
    /\ now' = now + 1000
    /\ UNCHANGED <<verification, user, account, session, started, calls, consumed>>

(* ------------------------------- verify -------------------------------- *)

Canonical(domain, address, nonce) ==
    buildSiwsMessage([domain |-> domain, address |-> <<address>>, uri |-> baseURL,
                      statement |-> Undefined, nonce |-> nonce,
                      issuedAt |-> IssuedAt, expirationTime |-> Undefined,
                      resources |-> <<>>])

\* what a client can put in the body of a verify call: a canonical message
\* for the configured or another domain, or the empty message
MessageInputs(address) ==
    {Canonical(d, address, n) : d \in {options.domain, OtherDomain}, n \in Nonce}
    \cup {<<>>}

\* a signature over the message by the wallet or by another keypair, one by
\* the wallet over another message, or a string that is no base58 text
SignatureInputs(address, message) ==
    {Sign(kp, message) : kp \in Keypair}
    \cup {Sign(address, <<"another message">>), NotBase58}

NoResponse == [status |-> 0, text |-> "", json |-> {}]

Response(text, status) == [status |-> status, text |-> text, json |-> {}]

\* an exception that leaves the handler: the framework answers 500
Thrown == [status |-> 500, text |-> "Internal Server Error", json |-> {}]

Json(body) == [status |-> 200, text |-> "", json |-> {body}]

\* the answer to a body that fails the schema of the endpoint
BadRequest == [status |-> 400, text |-> "BAD_REQUEST", json |-> {}]

\* mutant: the expiry instant itself still counts as live
ExpiredStrictlyAfter(v, date) == \E r \in v : r.expiresAt < date

\* new Date(v.expiresAt) <= new Date()
Expired(v, date) == \E r \in v : r.expiresAt <= date

\* message.startsWith(`${expectedDomain} wants you to sign in`)
DomainBound(message) ==
    StartsWith(message, options.domain \o <<" wants you to sign in">>)

Pending(k, op) == k \in 1..Len(calls) /\ calls[k].pc = op

Returned(c, response) == [c EXCEPT !.pc = "done", !.response = response]

\* the call has run step 3: it found a value and deleted it
PastDelete(c) ==
    /\ c.pc \notin {"findVerificationValue", "deleteVerificationValue"}
    /\ c.response.text \notin {"BAD_REQUEST", "Nonce missing",
                                "Nonce invalid or expired"}

SameBody(c, d) ==
    /\ c.address = d.address
    /\ c.message = d.message
    /\ c.signature = d.signature

\* history: the address has no verification value short of its expiry
NoLive(address) ==
    \A r \in verification :
        r.identifier = buildAccountId(address) => ~(now < r.expiresAt)

\* mutant: step 1 is left out, a message without nonce goes on to the lookup
VerifyCallNoNonceCheck(address, message, signature) ==
    /\ Len(calls) < MaxCalls
    /\ LET body == [address |-> address, message |-> message,
                    signature |-> signature]
           c == [address |-> address, message |-> message, signature |-> signature,
                 pc |-> "findVerificationValue", response |-> NoResponse,
                 v |-> {}, sigChecked |-> FALSE, existingAccount |-> {},
                 userObject |-> {}, session |-> {}, cookie |-> {},
                 replay |-> \E k \in 1..Len(calls) :
                     SameBody(calls[k], body) /\ PastDelete(calls[k]),
                 noLive |-> FALSE,
                 prior |-> {}]
       IN  calls' = Append(calls,
               IF ~ValidVerifyBody(body) THEN Returned(c, BadRequest) ELSE c)
    /\ UNCHANGED <<now, verification, user, account, session, started, consumed>>

\* POST /siws/verify, to the first await: the body schema and step 1
VerifyCall(address, message, signature) ==
    /\ Len(calls) < MaxCalls
    /\ LET body == [address |-> address, message |-> message,
                    signature |-> signature]
           c == [address |-> address, message |-> message, signature |-> signature,
                 pc |-> "findVerificationValue", response |-> NoResponse,
                 v |-> {}, sigChecked |-> FALSE, existingAccount |-> {},
                 userObject |-> {}, session |-> {}, cookie |-> {},
                 \* history: the body is the body of a call that has deleted
                 \* a verification value
                 replay |-> \E k \in 1..Len(calls) :
                     SameBody(calls[k], body) /\ PastDelete(calls[k]),
                 \* history, set when the call looks the value up or ends
                 \* before that: the address had no value short of its expiry
                 noLive |-> FALSE,
                 \* history, set by the lookup: the calls that had deleted the
                 \* value of the address since its last start
                 prior |-> {}]
       IN  calls' = Append(calls,
               IF ~ValidVerifyBody(body) THEN Returned(c, BadRequest)
               ELSE IF NonceMissing(message)
               THEN Returned([c EXCEPT !.noLive = NoLive(address)],
                             Response("Nonce missing", 400))
               ELSE c)
    /\ UNCHANGED <<now, verification, user, account, session, started, consumed>>

\* mutant: a lookup that rejects the value also purges it
VerifyFindPurgesRejected(k) ==
    /\ Pending(k, "findVerificationValue")
    /\ LET v == findVerificationValue(verification, buildAccountId(calls[k].address))
           c == [calls[k] EXCEPT !.v = v,
                                 !.noLive = NoLive(calls[k].address),
                                 !.prior = consumed[calls[k].address]]
       IN  /\ calls' = [calls EXCEPT ![k] =
                  IF v = {} \/ Expired(v, now)
                  THEN Returned(c, Response("Nonce invalid or expired", 400))
                  ELSE [c EXCEPT !.pc = "deleteVerificationValue"]]
           /\ verification' =
                  IF v = {} \/ Expired(v, now)
                  THEN deleteVerificationValue(verification,
                                               buildAccountId(calls[k].address))
                  ELSE verification
    /\ UNCHANGED <<now, user, account, session, started, consumed>>

\* step 2: the verification value is read and checked
VerifyFind(k) ==
    /\ Pending(k, "findVerificationValue")
    /\ LET v == findVerificationValue(verification, buildAccountId(calls[k].address))
           c == [calls[k] EXCEPT !.v = v,
                                 !.noLive = NoLive(calls[k].address),
                                 !.prior = consumed[calls[k].address]]
       IN  calls' = [calls EXCEPT ![k] =
               IF v = {} \/ Expired(v, now)
               THEN Returned(c, Response("Nonce invalid or expired", 400))
               ELSE [c EXCEPT !.pc = "deleteVerificationValue"]]
    /\ UNCHANGED <<now, verification, user, account, session, started, consumed>>

\* mutant: the signature is checked before the domain
AfterDeleteSignatureFirst(c) ==
    IF bs58decodeThrows(c.signature)
    THEN Returned([c EXCEPT !.sigChecked = TRUE], Thrown)
    ELSE IF ~verifyAsync(c.signature, c.message, c.address)
    THEN Returned([c EXCEPT !.sigChecked = TRUE], Response("Invalid signature", 401))
    ELSE IF ~DomainBound(c.message)
    THEN Returned([c EXCEPT !.sigChecked = TRUE], Response("Domain mismatch", 400))
    ELSE [c EXCEPT !.sigChecked = TRUE, !.pc = "findAccount"]

\* steps 4 and 5, after the delete has returned: the domain check, the
\* decoding of the signature and the result of verifyAsync
AfterDelete(c) ==
    IF ~DomainBound(c.message)
    THEN Returned(c, Response("Domain mismatch", 400))
    ELSE IF bs58decodeThrows(c.signature)
    THEN Returned([c EXCEPT !.sigChecked = TRUE], Thrown)
    ELSE IF ~verifyAsync(c.signature, c.message, c.address)
    THEN Returned([c EXCEPT !.sigChecked = TRUE], Response("Invalid signature", 401))
    ELSE [c EXCEPT !.sigChecked = TRUE, !.pc = "findAccount"]

\* mutant: step 3 is left out
VerifyDeleteLeftOut(k) ==
    /\ Pending(k, "deleteVerificationValue")
    /\ calls' = [calls EXCEPT ![k] = AfterDelete(@)]
    /\ consumed' = [consumed EXCEPT ![calls[k].address] = @ \cup {k}]
    /\ UNCHANGED <<now, verification, user, account, session, started>>

\* mutant: the value is deleted only once the domain and the signature have
\* passed
VerifyDeleteOnceVerified(k) ==
    /\ Pending(k, "deleteVerificationValue")
    /\ verification' =
           IF AfterDelete(calls[k]).pc = "done" THEN verification
           ELSE deleteVerificationValue(verification,
                                        buildAccountId(calls[k].address))
    /\ calls' = [calls EXCEPT ![k] = AfterDelete(@)]
    /\ consumed' = [consumed EXCEPT ![calls[k].address] = @ \cup {k}]
    /\ UNCHANGED <<now, user, account, session, started>>

\* mutant: step 3 deletes the values of every address
VerifyDeleteEveryAddress(k) ==
    /\ Pending(k, "deleteVerificationValue")
    /\ verification' = {}
    /\ calls' = [calls EXCEPT ![k] = AfterDelete(@)]
    /\ consumed' = [consumed EXCEPT ![calls[k].address] = @ \cup {k}]
    /\ UNCHANGED <<now, user, account, session, started>>

\* step 3: the verification value is deleted
VerifyDelete(k) ==
    /\ Pending(k, "deleteVerificationValue")
    /\ verification' =
           deleteVerificationValue(verification, buildAccountId(calls[k].address))
    /\ calls' = [calls EXCEPT ![k] = AfterDelete(@)]
    /\ consumed' = [consumed EXCEPT ![calls[k].address] = @ \cup {k}]
    /\ UNCHANGED <<now, user, account, session, started>>

\* step 6: the account of the address is looked up
VerifyFindAccount(k) ==
    /\ Pending(k, "findAccount")
    /\ LET found == findAccount(account, buildAccountId(calls[k].address))
       IN  IF found = {}
           THEN calls' = [calls EXCEPT ![k].pc = "createOAuthUser"]
           ELSE \E a \in found :
                   calls' = [calls EXCEPT ![k].existingAccount = {a},
                                          ![k].pc = "findUserById"]
    /\ UNCHANGED <<now, verification, user, account, session, started, consumed>>

\* step 6, no account: a user and its account are created
VerifyCreateOAuthUser(k) ==
    /\ Pending(k, "createOAuthUser")
    /\ LET address == calls[k].address
           \* the store gives the user a fresh id; the name abbreviates the
           \* address (its first and last four characters)
           u == [id |-> Cardinality(user) + 1, email |-> address,
                 emailVerified |-> TRUE, name |-> <<"sol:", address>>]
       IN  /\ user' = user \cup {u}
           /\ account' = account \cup
                  {[providerId |-> "siws", accountId |-> buildAccountId(address),
                    userId |-> u.id]}
           /\ calls' = [calls EXCEPT ![k].userObject = {u},
                                      ![k].pc = "createSession"]
    /\ UNCHANGED <<now, verification, session, started, consumed>>

\* step 6, an account: its user is loaded; userObject.id of no user throws
VerifyFindUserById(k) ==
    /\ Pending(k, "findUserById")
    /\ LET found == UNION {findUserById(user, a.userId) : a \in calls[k].existingAccount}
       IN  calls' = [calls EXCEPT ![k] =
               IF found = {} THEN Returned(@, Thrown)
               ELSE [@ EXCEPT !.userObject = found, !.pc = "createSession"]]
    /\ UNCHANGED <<now, verification, user, account, session, started, consumed>>

\* mutant: the session is returned but never handed to the cookie transport
AfterCreateSessionNoCookie(c, s, u) ==
    Returned([c EXCEPT !.session = {s}], Json([user |-> u.id, session |-> s]))

\* step 7, after the session is created: the session cookie is set and the
\* call returns { user, session }
AfterCreateSession(c, s, u) ==
    Returned([c EXCEPT !.session = {s}, !.cookie = {[session |-> s, user |-> u]}],
             Json([user |-> u.id, session |-> s]))

\* step 7: a session of the user is created
VerifyCreateSession(k) ==
    /\ Pending(k, "createSession")
    /\ \E u \in calls[k].userObject :
           LET s == [id |-> Cardinality(session) + 1, userId |-> u.id]
           IN  /\ session' = session \cup {s}
               /\ calls' = [calls EXCEPT ![k] = AfterCreateSession(@, s, u)]
    /\ UNCHANGED <<now, verification, user, account, started, consumed>>

(* --------------------------- specification ------------------------------ *)

Init ==
    /\ now = 0
    /\ verification = {}
    /\ user = {}
    /\ account = {}
    /\ session = {}
    /\ started = <<>>
    /\ calls = <<>>
    /\ consumed = [a \in Address |-> {}]

Next ==
    \/ \E address \in Address, nonce \in Nonce : Start(address, nonce)
    \/ Tick
    \/ \E address \in Address :
          \E message \in MessageInputs(address) :
             \E signature \in SignatureInputs(address, message) :
                VerifyCall(address, message, signature)
    \/ \E k \in 1..MaxCalls :
          \/ VerifyFind(k)
          \/ VerifyDelete(k)
          \/ VerifyFindAccount(k)
          \/ VerifyCreateOAuthUser(k)
          \/ VerifyFindUserById(k)
          \/ VerifyCreateSession(k)

Spec == Init /\ [][Next]_vars

(* ------------- two wallets and bodies that fail the schema -------------- *)

\* the addresses a client can put in a body: the wallets and a short one
AddressInputs == Wallet \cup {ShortAddress}

\* bodies of a wallet: the canonical message signed by the wallet or by
\* another keypair, and the empty message
WalletBodies ==
    UNION {LET m == Canonical(options.domain, a, <<"n1">>)
           IN  {[address |-> a, message |-> m, signature |-> Sign(a, m)],
                [address |-> a, message |-> m, signature |-> Sign("attacker", m)],
                [address |-> a, message |-> <<>>, signature |-> Sign(a, <<>>)]}
           : a \in Wallet}

\* bodies that fail the schema: a short address, the empty object of the
\* test, a body without message and one without signature
MalformedBodies ==
    LET m == Canonical(options.domain, "addr1", <<"n1">>)
        short == Canonical(options.domain, ShortAddress, <<"n1">>)
    IN  {[address |-> ShortAddress, message |-> short,
          signature |-> Sign(ShortAddress, short)],
         [address |-> AbsentAddress, message |-> Undefined,
          signature |-> AbsentSignature],
         [address |-> "addr1", message |-> Undefined, signature |-> Sign("addr1", m)],
         [address |-> "addr1", message |-> m, signature |-> AbsentSignature]}

InitWallets ==
    /\ now = 0
    /\ verification = {}
    /\ user = {}
    /\ account = {}
    /\ session = {}
    /\ started = <<>>
    /\ calls = <<>>
    /\ consumed = [a \in Wallet |-> {}]

NextWallets ==
    \/ \E address \in AddressInputs : Start(address, <<"n1">>)
    \/ Tick
    \/ \E body \in WalletBodies \cup MalformedBodies :
          VerifyCall(body.address, body.message, body.signature)
    \/ \E k \in 1..MaxCalls :
          \/ VerifyFind(k)
          \/ VerifyDelete(k)
          \/ VerifyFindAccount(k)
          \/ VerifyCreateOAuthUser(k)
          \/ VerifyFindUserById(k)
          \/ VerifyCreateSession(k)

SpecWallets == InitWallets /\ [][NextWallets]_vars

(* ------------------------ the codec on its own -------------------------- *)

\* field sets a client can hand to buildSiwsMessage: two domains, no
\* statement, a one-line one or one of two lines, a nonce as start returns it
\* or one with a blank in front, with and without expiration time and
\* resources
FieldSets ==
    [domain : {options.domain, OtherDomain},
     address : {<<"addr1">>},
     uri : {baseURL},
     statement : {Undefined, <<"Welcome back.">>,
                  <<"Welcome back.", NL, "Nonce: ", "n2">>},
     nonce : {<<"n1">>, <<" ", "n1">>},
     issuedAt : {IssuedAt},
     expirationTime : {Undefined, <<"2024-01-01T00:05:00Z">>},
     resources : {<<>>, << <<"https://app.example.com/a">> >>,
                  << <<"https://app.example.com/a">>,
                     <<"https://app.example.com/b">> >>}]

\* a client builds the message of a field set
BuildMessage(f) ==
    /\ Len(calls) < MaxCalls
    /\ calls' = Append(calls,
           [f |-> f, message |-> buildSiwsMessage(f), pc |-> "built",
            nonceFromMsg |-> Undefined])
    /\ UNCHANGED <<now, verification, user, account, session, started, consumed>>

\* the nonce is extracted from a built message, the way step 1 of verify does
ExtractNonce(k) ==
    /\ k \in 1..Len(calls)
    /\ calls[k].pc = "built"
    /\ calls' = [calls EXCEPT ![k].nonceFromMsg = nonceFromMsg(calls[k].message),
                              ![k].pc = "extracted"]
    /\ UNCHANGED <<now, verification, user, account, session, started, consumed>>

NextCodec ==
    \/ \E f \in FieldSets : BuildMessage(f)
    \/ \E k \in 1..MaxCalls : ExtractNonce(k)

\* calls holds the applications of the codec instead of verify calls
SpecCodec == Init /\ [][NextCodec]_vars

(* ------------------------------ properties ------------------------------ *)

Calls == {calls[k] : k \in 1..Len(calls)}

Done(c) == c.pc = "done"

Answered(c, text, status) ==
    Done(c) /\ c.response.status = status /\ c.response.text = text

NonceInvalidOrExpired(c) == Answered(c, "Nonce invalid or expired", 400)

DomainMismatch(c) == Answered(c, "Domain mismatch", 400)

InvalidSignature(c) == Answered(c, "Invalid signature", 401)

Succeeded(c) == Done(c) /\ c.response.status = 200

\* the signature is one by the key of the address over the submitted message
ValidSignature(c) ==
    /\ c.signature.base58
    /\ c.signature.signer = c.address
    /\ c.signature.signed = c.message

\* the message begins with the configured domain and the greeting prefix
DomainGreeting(c) ==
    /\ Len(c.message) >= 2
    /\ c.message[1] = "app.example.com"
    /\ c.message[2] = " wants you to sign in"

NothingCreated(c) == c.userObject = {} /\ c.session = {} /\ c.cookie = {}

\* C1 (single use): a verify that looks the challenge up after a successful
\* verify with the same address, message and signature has consumed it, with
\* no start for the address since, ends with NonceInvalidOrExpired (400) and
\* creates no session.
C1_SingleUse ==
    \A k2 \in 1..Len(calls) : \A k1 \in calls[k2].prior :
        (Succeeded(calls[k1]) /\ SameBody(calls[k1], calls[k2]))
            => (NonceInvalidOrExpired(calls[k2]) /\ NothingCreated(calls[k2]))

C1_Witness ==
    \E k2 \in 1..Len(calls) : \E k1 \in calls[k2].prior :
        /\ Succeeded(calls[k1])
        /\ SameBody(calls[k1], calls[k2])
        /\ Done(calls[k2])

\* C2 (replay protection), as claimed: a verify whose address, message and
\* signature are those of an earlier call that consumed a challenge fails at
\* the challenge lookup with NonceInvalidOrExpired, whatever start and verify
\* calls came in between.
C2_ReplayAlwaysFails ==
    \A c \in Calls :
        (c.replay /\ c.pc # "findVerificationValue") => NonceInvalidOrExpired(c)

\* C3 (concurrent consumption), as claimed: no two verify calls get past
\* step 3 on the same Challenge Record.
C3_OneConsumerPerRecord ==
    \A k1, k2 \in 1..Len(calls) :
        (k1 # k2 /\ PastDelete(calls[k1]) /\ PastDelete(calls[k2]))
            => calls[k1].v # calls[k2].v

\* C4 (invalid signature), as claimed: a verify that reaches the signature
\* check with a signature that is not one by the key of the address over the
\* message ends with 401 InvalidSignature and creates nothing.
C4_InvalidSignatureIs401 ==
    \A c \in Calls :
        (Done(c) /\ c.sigChecked /\ ~ValidSignature(c))
            => (InvalidSignature(c) /\ NothingCreated(c))

\* C5 (expiry), as claimed: a verify for an address that has no Challenge
\* Record, or one whose expiresAt is at or before the current time, ends with
\* NonceInvalidOrExpired (400) and creates no session.
C5_StaleAlwaysNonceInvalid ==
    \A c \in Calls :
        c.noLive => (NonceInvalidOrExpired(c) /\ NothingCreated(c))

\* C5 (expiry), amended: a verify whose message has a nonce line and whose
\* lookup finds no Challenge Record, or one whose expiresAt is at or before
\* the time of the lookup, ends with NonceInvalidOrExpired (400) and creates
\* no session, whatever the signature.
C5_Expiry ==
    \A c \in Calls :
        (c.noLive /\ ~NonceMissing(c.message))
            => (NonceInvalidOrExpired(c) /\ NothingCreated(c))

C5_Witness ==
    \E c, d \in Calls :
        /\ c.noLive /\ ValidSignature(c) /\ DomainGreeting(c)
        /\ \E r \in c.v : r.value = nonceFromMsg(c.message)
        /\ d.noLive /\ d.v = {} /\ ValidSignature(d) /\ DomainGreeting(d)

\* C6 (idempotent provisioning), as claimed: at most one account exists for
\* the account-id of an address and all successful verify calls for the
\* address return the same user id.
C6_OneUserPerAddress ==
    /\ \A a \in Address :
          Cardinality({x \in account : x.accountId = buildAccountId(a)}) <= 1
    /\ \A c, d \in Calls :
          (Succeeded(c) /\ Succeeded(d) /\ c.address = d.address)
              => \A x \in c.response.json, y \in d.response.json : x.user = y.user

\* the message carries a nonce that an earlier start returned for the address
\* and a later start for the address has replaced by another one
SupersededNonce(c) ==
    \E r \in c.v : \E i \in 1..(r.id - 1) :
        /\ started[i].address = c.address
        /\ started[i].nonce = nonceFromMsg(c.message)
        /\ r.value # started[i].nonce

\* C7 (start supersedes), as claimed: a verify whose message carries the
\* nonce of a superseded start does not succeed while the challenge of the
\* later start is the live one.
C7_SupersededNonceFails ==
    \A c \in Calls : SupersededNonce(c) => ~Succeeded(c)

\* C8 (domain binding), as claimed: a verify whose message does not begin
\* with the configured domain and the greeting prefix ends with
\* DomainMismatch.
C8_UnboundAlwaysDomainMismatch ==
    \A c \in Calls : (Done(c) /\ ~DomainGreeting(c)) => DomainMismatch(c)

\* C8 (domain binding), amended: a verify that has found a live Challenge
\* Record and whose message does not begin with the configured domain and the
\* greeting prefix ends with DomainMismatch (400) without attempting the
\* signature check.
C8_DomainBinding ==
    \A c \in Calls :
        (PastDelete(c) /\ ~DomainGreeting(c))
            => (DomainMismatch(c) /\ ~c.sigChecked /\ NothingCreated(c))

C8_Witness ==
    \E c \in Calls :
        PastDelete(c) /\ ~DomainGreeting(c) /\ ~ValidSignature(c) /\ Done(c)

\* C9 (successful flow): a verify whose lookup finds the live challenge of a
\* start, with the canonical message built from that start's nonce, domain
\* and uri and a signature by the address's key, ends with 200 {user,
\* session}; the session is a stored session of the returned user and is the
\* one set as the session cookie.
C9_SuccessfulFlow ==
    \A c \in Calls :
        (/\ Done(c)
         /\ ~c.noLive
         /\ \E r \in c.v :
               c.message = Canonical(started[r.id].domain, c.address,
                                     started[r.id].nonce)
         /\ ValidSignature(c))
            => /\ c.response.status = 200
               /\ \E s \in session, u \in user :
                     /\ s.userId = u.id
                     /\ c.response.json = {[user |-> u.id, session |-> s]}
                     /\ c.cookie = {[session |-> s, user |-> u]}

C9_Witness ==
    /\ Len(started) = 1
    /\ Len(calls) = 1
    /\ Succeeded(calls[1])
    /\ calls[1].message = Canonical(started[1].domain, started[1].address,
                                    started[1].nonce)

\* C10 (unconditional consumption): a verify that found a live Challenge
\* Record has deleted it once past step 3, whatever its outcome; and a verify
\* that looks the challenge up after a call that ended with DomainMismatch or
\* InvalidSignature has consumed it, with no start for the address since,
\* ends with NonceInvalidOrExpired.
C10_UnconditionalConsumption ==
    /\ \A c \in Calls : PastDelete(c) => c.v \cap verification = {}
    /\ \A k2 \in 1..Len(calls) : \A k1 \in calls[k2].prior :
          (DomainMismatch(calls[k1]) \/ InvalidSignature(calls[k1]))
              => NonceInvalidOrExpired(calls[k2])

C10_Witness ==
    \E k2 \in 1..Len(calls) : \E k1 \in calls[k2].prior :
        /\ InvalidSignature(calls[k1])
        /\ calls[k1].v \cap verification = {}
        /\ Done(calls[k2])
        /\ ValidSignature(calls[k2])
        /\ DomainGreeting(calls[k2])

MalformedMessage(c) == Answered(c, "Nonce missing", 400)

\* one of the four expected failures before step 6
ExpectedFailure(c) ==
    \/ MalformedMessage(c)
    \/ NonceInvalidOrExpired(c)
    \/ DomainMismatch(c)
    \/ InvalidSignature(c)

\* the step is one of verify call k: the call enters or moves on
StepOf(k) ==
    /\ k \in 1..Len(calls')
    /\ k <= Len(calls) => calls'[k] # calls[k]

\* the verification values without those of the address
WithoutChallengeOf(address) ==
    {r \in verification : r.identifier # <<"siws:", address>>}

\* C11 (failure frame): a verify call that ends in MalformedMessage,
\* NonceInvalidOrExpired, DomainMismatch or InvalidSignature has provisioned
\* no user, created no session and set no cookie; none of its steps changes
\* the users, accounts or sessions; the only change it makes to the store is
\* the deletion of the Challenge Record of its address, made by the step that
\* ends in DomainMismatch or InvalidSignature and by no step that ends in
\* MalformedMessage or NonceInvalidOrExpired.
C11_FailureFrame ==
    /\ [](\A c \in Calls :
            ExpectedFailure(c) => (NothingCreated(c) /\ c.existingAccount = {}))
    /\ [][\A k \in 1..Len(calls') :
            (/\ StepOf(k)
             /\ \/ calls'[k].pc \in {"findVerificationValue", "deleteVerificationValue"}
                \/ ExpectedFailure(calls'[k]))
                => /\ user' = user /\ account' = account /\ session' = session
                   /\ calls'[k].cookie = {}
                   /\ verification' =
                          IF DomainMismatch(calls'[k]) \/ InvalidSignature(calls'[k])
                          THEN WithoutChallengeOf(calls'[k].address)
                          ELSE verification]_vars

\* one call has ended with InvalidSignature and its record is gone, another
\* has ended with NonceInvalidOrExpired on an expired record that is still
\* stored
C11_Witness ==
    \E c, d \in Calls :
        /\ InvalidSignature(c) /\ c.v # {} /\ c.v \cap verification = {}
        /\ NonceInvalidOrExpired(d) /\ d.v # {} /\ d.v \subseteq verification
        /\ user = {} /\ account = {} /\ session = {}

\* the message has a line that starts with "Nonce: " and goes on with a
\* non-empty value
HasNonceLine(message) ==
    \E i \in 1..Len(message) :
        /\ message[i] = "Nonce: "
        /\ i = 1 \/ message[i - 1] = NL
        /\ \E j \in (i + 1)..Len(message) :
              /\ message[j] \notin {" ", NL}
              /\ \A h \in (i + 1)..j : message[h] # NL

\* the body of the call is malformed: a short or absent address, an absent
\* message or signature, or a message without a nonce
Malformed(c) ==
    \/ c.address \in {ShortAddress, AbsentAddress}
    \/ c.message = Undefined
    \/ c.signature = AbsentSignature
    \/ ~HasNonceLine(c.message)

\* C12 (malformed input): a verify call whose address is shorter than 32
\* characters, whose body lacks a field or whose message has no nonce line
\* with a non-empty value is answered 400 by the step that receives it, which
\* is its only step: it has read no Challenge Record and the step leaves the
\* verification values, users, accounts and sessions as they were; a start
\* with an address shorter than 32 characters leaves the verification values
\* as they were.
C12_MalformedRejected ==
    /\ [](\A c \in Calls :
            Malformed(c) => /\ Done(c) /\ c.response.status = 400
                            /\ c.v = {} /\ NothingCreated(c))
    /\ [][/\ \A k \in 1..Len(calls') :
              (StepOf(k) /\ Malformed(calls'[k]))
                  => /\ k = Len(calls) + 1
                     /\ UNCHANGED <<verification, user, account, session>>
          /\ (/\ Len(started') > Len(started)
              /\ started'[Len(started')].address = ShortAddress)
                 => /\ verification' = verification
                    /\ started'[Len(started')].nonce = Undefined]_vars

\* a start with a short address was rejected, a verify for a wallet was
\* rejected as malformed, and a later verify for the same wallet succeeded
C12_Witness ==
    /\ \E i \in 1..Len(started) : started[i].address = ShortAddress
    /\ Len(calls) = 2
    /\ Malformed(calls[1])
    /\ calls[1].address \in Wallet
    /\ calls[2].address = calls[1].address
    /\ Succeeded(calls[2])

\* C13 (codec round trip), as claimed: for every field set f, the nonce
\* extracted from buildSiwsMessage(f) the way verify does is exactly f.nonce.
C13_RoundTrip ==
    \A k \in 1..Len(calls) :
        calls[k].pc = "extracted" => calls[k].nonceFromMsg = calls[k].f.nonce

\* the call has passed the signature check: it is at step 6 or 7 or has
\* provisioned a user or created a session
Authenticated(c) ==
    \/ c.pc \in {"findAccount", "createOAuthUser", "findUserById", "createSession"}
    \/ c.userObject # {}
    \/ c.session # {}

\* at its lookup the call found a Challenge Record of its address short of
\* its expiry
FoundLive(c) ==
    /\ ~c.noLive
    /\ \E r \in c.v : r.identifier = <<"siws:", c.address>>

\* C14 (authentication soundness): every call that gets past the signature
\* check found a live Challenge Record of its address, carries a message that
\* begins with the configured domain greeting and a signature by the key of
\* its address over exactly its message; every stored session, user and
\* account comes from such a call, and the session of a call belongs to a
\* user linked to the account-id siws:<address> of the call.
C14_AuthenticationSoundness ==
    /\ \A c \in Calls :
          Authenticated(c) =>
              /\ FoundLive(c)
              /\ DomainGreeting(c)
              /\ c.signature.base58
              /\ c.signature.signer = c.address
              /\ c.signature.signed = c.message
              /\ \A s \in c.session :
                    /\ s \in session
                    /\ \E a \in account :
                          /\ a.accountId = <<"siws:", c.address>>
                          /\ a.userId = s.userId
    /\ \A s \in session : \E c \in Calls : s \in c.session
    /\ \A u \in user : \E c \in Calls : u \in c.userObject
    /\ \A a \in account :
          \E c \in Calls : \E u \in c.userObject :
              a.userId = u.id /\ a.accountId = <<"siws:", c.address>>

\* a signature by the wallet over another message was refused and a call
\* with a signature over its own message has succeeded
C14_Witness ==
    \E c, d \in Calls :
        /\ Succeeded(c) /\ c.session # {}
        /\ InvalidSignature(d)
        /\ d.signature.signer = d.address
        /\ d.signature.signed # d.message
        /\ DomainGreeting(d)

\* the awaits of verify in the order of the handler, and where each can end
StepOrder ==
    {<<"findVerificationValue", "deleteVerificationValue">>,
     <<"findVerificationValue", "done">>,
     <<"deleteVerificationValue", "findAccount">>,
     <<"deleteVerificationValue", "done">>,
     <<"findAccount", "createOAuthUser">>,
     <<"findAccount", "findUserById">>,
     <<"createOAuthUser", "createSession">>,
     <<"findUserById", "createSession">>,
     <<"findUserById", "done">>,
     <<"createSession", "done">>}

\* C15 (check order): the outcome of a finished verify is that of the
\* earliest failing check, whatever the later checks would say: a message
\* without nonce ends with MalformedMessage whatever the record, the domain
\* and the signature; with a nonce and no live record it ends with
\* NonceInvalidOrExpired whatever the domain and the signature; with a live
\* record and a wrong domain it ends with DomainMismatch, the record deleted
\* and the signature unchecked; only then is the signature checked, and only
\* after a valid signature is an identity resolved or a session created.
\* Every call moves through its awaits in the order of the handler, takes no
\* step once it has returned, and no step up to the lookup (steps 1 and 2)
\* changes the verification values.
C15_CheckOrder ==
    /\ [](\A c \in Calls :
            LET nonce == HasNonceLine(c.message)
                domain == DomainGreeting(c)
            IN  /\ (Done(c) /\ ~nonce)
                       => (MalformedMessage(c) /\ c.v = {} /\ ~c.sigChecked)
                /\ (Done(c) /\ nonce /\ c.noLive)
                       => (NonceInvalidOrExpired(c) /\ ~c.sigChecked)
                /\ (Done(c) /\ nonce /\ ~c.noLive /\ ~domain)
                       => /\ DomainMismatch(c) /\ ~c.sigChecked
                          /\ c.v # {} /\ c.v \cap verification = {}
                /\ (Done(c) /\ nonce /\ ~c.noLive /\ domain)
                       => /\ c.sigChecked
                          /\ c.v # {} /\ c.v \cap verification = {}
                /\ (c.sigChecked /\ ~ValidSignature(c))
                       => (Done(c) /\ c.existingAccount = {} /\ NothingCreated(c)))
    /\ [][\A k \in 1..Len(calls') :
            /\ k > Len(calls) => calls'[k].pc \in {"findVerificationValue", "done"}
            /\ k <= Len(calls) =>
                  /\ Done(calls[k]) => calls'[k] = calls[k]
                  /\ calls'[k] # calls[k] =>
                        <<calls[k].pc, calls'[k].pc>> \in StepOrder
            /\ (StepOf(k) /\ (k > Len(calls)
                               \/ calls[k].pc = "findVerificationValue"))
                  => verification' = verification]_vars

\* a call without nonce line and without record ended with MalformedMessage,
\* and a call with a wrong domain and a wrong signature found a live record
\* and ended with DomainMismatch
C15_Witness ==
    \E c, d \in Calls :
        /\ MalformedMessage(c) /\ c.noLive /\ ~DomainGreeting(c)
        /\ DomainMismatch(d) /\ ~ValidSignature(d) /\ ~d.noLive

\* the Challenge Records stored for the address
ChallengesOf(address) ==
    {r \in verification : r.identifier = <<"siws:", address>>}

\* the start calls answered for the address, by their place in the order
StartsOf(address) ==
    {i \in 1..Len(started) :
        started[i].address = address /\ started[i].nonce # Undefined}

\* C16 (one challenge per address): the store holds at most one Challenge
\* Record for the identifier siws:<address> of each address, and the value of
\* that record is the nonce the most recent start for the address returned.
C16_OneChallengePerAddress ==
    \A a \in Address :
        /\ Cardinality(ChallengesOf(a)) <= 1
        /\ \A r \in ChallengesOf(a) :
              \E i \in StartsOf(a) :
                  /\ \A j \in StartsOf(a) : j <= i
                  /\ r.value = started[i].nonce

\* a second start for the address has returned another nonce than the first
\* and the one record stored holds it
C16_Witness ==
    /\ Len(started) = 2
    /\ started[1].address = started[2].address
    /\ started[1].nonce # started[2].nonce
    /\ \E r \in ChallengesOf(started[2].address) : r.value = started[2].nonce

\* the ttl the configuration asks for, in seconds
ConfiguredTtl == CHOOSE n \in options.nonceTtlSeconds : TRUE

\* C17 (validity window): a start at time t stores a Challenge Record whose
\* expiresAt is exactly t plus the ttl, the configured nonceTtlSeconds (300
\* seconds when none is configured); a lookup that finds the record rejects
\* it as expired exactly when the time of the lookup is at or after expiresAt.
C17_ValidityWindow ==
    /\ [](/\ options.nonceTtlSeconds # {}
          /\ NonceTtlSecondsOf([options EXCEPT !.nonceTtlSeconds = {}]) = 300
          /\ \A n \in 0..MaxTime :
                NonceTtlSecondsOf([options EXCEPT !.nonceTtlSeconds = {n}]) = n)
    /\ [][/\ (/\ Len(started') > Len(started)
               /\ started'[Len(started')].nonce # Undefined)
                  => \E r \in verification' :
                         /\ r.id = Len(started')
                         /\ r.value = started'[Len(started')].nonce
                         /\ r.expiresAt = now + ConfiguredTtl * 1000
          /\ \A k \in 1..Len(calls) :
                (/\ calls[k].pc = "findVerificationValue"
                 /\ calls'[k].pc # "findVerificationValue")
                    => \A r \in ChallengesOf(calls[k].address) :
                           NonceInvalidOrExpired(calls'[k]) <=> now >= r.expiresAt]_vars

\* one lookup found a record before its expiry and went on, another found a
\* record at the very instant of its expiry and rejected it
C17_Witness ==
    \E c, d \in Calls :
        /\ PastDelete(c) /\ c.v # {}
        /\ NonceInvalidOrExpired(d)
        /\ \E r \in d.v : r.expiresAt = now

\* C18 (verify deletes only the record it looked up), as claimed: the step of
\* a verify call that deletes (step 3) removes from the store no Challenge
\* Record other than the one its lookup (step 2) returned, so the record of a
\* start that completed in between stays.
C18_DeletesOnlyLookedUp ==
    [][\A k \in 1..Len(calls) :
          (/\ calls[k].pc = "deleteVerificationValue"
           /\ calls'[k].pc # "deleteVerificationValue")
              => (verification \ verification') \subseteq calls[k].v]_vars

\* the accounts under the account-id of the address
AccountsOf(address) ==
    {a \in account : a.accountId = <<"siws:", address>>}

\* the users linked to the account-id of the address
UsersOf(address) ==
    {u \in user : \E a \in AccountsOf(address) : a.userId = u.id}

\* what the store holds for the address
StoredFor(address) ==
    <<ChallengesOf(address), AccountsOf(address), UsersOf(address)>>

\* C19 (per-address isolation): a verify call has read no Challenge Record
\* and no account but those of its own address; every step of a verify call
\* and every start for an address A leaves the Challenge Record, the account
\* and the linked user of every other address B as they were.
C19_PerAddressIsolation ==
    /\ [](\A c \in Calls :
            /\ \A r \in c.v : r.identifier = <<"siws:", c.address>>
            /\ \A a \in c.existingAccount : a.accountId = <<"siws:", c.address>>)
    /\ [][/\ \A k \in 1..Len(calls') :
               StepOf(k) =>
                   \A b \in Wallet \ {calls'[k].address} :
                       StoredFor(b)' = StoredFor(b)
          /\ Len(started') > Len(started) =>
                 \A b \in Wallet \ {started'[Len(started')].address} :
                     StoredFor(b)' = StoredFor(b)]_vars

\* a verify for one wallet has run to its end, creating its user, while the
\* challenge another wallet was issued before is still stored and live
C19_Witness ==
    \E c \in Calls : \E b \in Wallet \ {c.address} :
        /\ Succeeded(c)
        /\ UsersOf(c.address) # {}
        /\ \E r \in ChallengesOf(b) : \E q \in c.v :
              r.id < q.id /\ now < r.expiresAt

====
